---- MODULE Spec2Model ----
(***************************************************************************)
(* A model of backend/utils/gemini_scheduler.py: the GeminiScheduler       *)
(* class (prompt construction, the outbound request, JSON extraction from  *)
(* the free-text answer and the mock fallback).                            *)
(*                                                                         *)
(* Python values are modelled as follows.  A dict is a function whose      *)
(* DOMAIN is its key set (the empty dict is <<>>), a list is a sequence,   *)
(* a str that the code searches or slices is a sequence of characters,     *)
(* any other str is a string.  An operator that can raise returns a        *)
(* record whose field `raised` names the exception class ("none" when it   *)
(* returns normally).  The dict built by _generate_mock_schedule is a      *)
(* mutable object: it lives in `heap` and results hold a reference to it.  *)
(***************************************************************************)
EXTENDS Integers, Sequences, FiniteSets, TLC

VARIABLES
    argKey,     \* the api_key argument given to __init__
    envKey,     \* the value of GEMINI_API_KEY when __init__ ran
    api_key,    \* self.api_key
    base_url,   \* self.base_url
    now,        \* the wall clock, in whole units of time: calls made at the
                \* same value of now are less than one unit apart
    calls,      \* number of generate_schedule invocations so far
    log,        \* the outbound requests received by the remote service
    heap,       \* the mock-schedule dicts created so far, by reference
    held,       \* the result dict the caller holds (it may modify it)
    last        \* the last invocation: its inputs and what it returned

vars == <<argKey, envKey, api_key, base_url, now, calls, log, heap, held, last>>

-----------------------------------------------------------------------------
(* Bounds of the model *)

MaxCalls == 2
MaxTime == 1
MaxTextLen == 4
MaxScenes == 2

-----------------------------------------------------------------------------
(* Python helpers *)

\* None, where a str is expected (the api key)
NoneKey == "<None>"

\* A test for None only: the empty string counts as a key
TruthyUnlessNone(k) == k # NoneKey

\* bool(k) for a key that is None or a str
Truthy(k) == k # NoneKey /\ k # ""

\* a or b
PyOr(a, b) == IF Truthy(a) THEN a ELSE b

\* d.get(k, def)
Get(d, k, def) == IF k \in DOMAIN d THEN d[k] ELSE def

\* d.setdefault(k, v): a key already present keeps its value
SetDefault(d, k, v) ==
    [x \in (DOMAIN d) \cup {k} |-> IF x \in DOMAIN d THEN d[x] ELSE v]

\* d[k] = v
SetItem(d, k, v) == [x \in (DOMAIN d) \cup {k} |-> IF x = k THEN v ELSE d[x]]

EmptyDict == <<>>

\* str(n) for a natural number
Digits == <<"0", "1", "2", "3", "4", "5", "6", "7", "8", "9">>

RECURSIVE Str(_)
Str(n) == IF n < 10 THEN Digits[n + 1] ELSE Str(n \div 10) \o Digits[(n % 10) + 1]

\* All sequences over S of length at most n
SeqsUpTo(S, n) == UNION {[1..k -> S] : k \in 0..n}

-----------------------------------------------------------------------------
(* The text of a response, and json.loads on it.                           *)
(* A text is a sequence of characters.  The characters "o" and "g" stand   *)
(* for one well-formed member ("key": value) each; "x" is any character of *)
(* free text.                                                              *)

Char == {"{", "}", ",", "o", "g", "x"}

Members == {"o", "g"}

LiveSchedule ==
    [scheduling_strategy |-> "remote strategy", total_shooting_days |-> 1]

MemberKey(m) == IF m = "o" THEN "optimized_schedule" ELSE "generation_info"

MemberValue(m) == IF m = "o" THEN LiveSchedule ELSE [from_remote |-> TRUE]

\* text.find(c)
Find(text, c) ==
    IF \E i \in 1..Len(text) : text[i] = c
    THEN (CHOOSE i \in 1..Len(text) :
              text[i] = c /\ \A j \in 1..(i - 1) : text[j] # c) - 1
    ELSE -1

\* A search for the first occurrence where the last is meant
RFindFirst(text, c) == Find(text, c)

\* text.rfind(c)
RFind(text, c) ==
    IF \E i \in 1..Len(text) : text[i] = c
    THEN (CHOOSE i \in 1..Len(text) :
              text[i] = c /\ \A j \in (i + 1)..Len(text) : text[j] # c) - 1
    ELSE -1

\* text[a:b], for 0 <= a <= b <= len(text)
Slice(text, a, b) == SubSeq(text, a + 1, b)

\* whether s is the text of a JSON object: { } or { member , member ... }
IsJsonObject(s) ==
    /\ Len(s) >= 2
    /\ s[1] = "{"
    /\ s[Len(s)] = "}"
    /\ LET inner == SubSeq(s, 2, Len(s) - 1)
       IN  \/ Len(inner) = 0
           \/ /\ Len(inner) % 2 = 1
              /\ \A i \in 1..Len(inner) :
                     IF i % 2 = 1 THEN inner[i] \in Members ELSE inner[i] = ","

\* json.loads(s): the dict of the members, a later member replacing an earlier
\* one with the same key; json.JSONDecodeError when s is not JSON
JsonLoads(s) ==
    IF IsJsonObject(s)
    THEN LET inner == SubSeq(s, 2, Len(s) - 1)
             at == {i \in 1..Len(inner) : i % 2 = 1}
             keys == {MemberKey(inner[i]) : i \in at}
             lastAt(k) == CHOOSE i \in at :
                              /\ MemberKey(inner[i]) = k
                              /\ \A j \in at : MemberKey(inner[j]) = k => j <= i
         IN  [raised |-> "none",
              value |-> [k \in keys |-> MemberValue(inner[lastAt(k)])]]
    ELSE [raised |-> "JSONDecodeError"]

-----------------------------------------------------------------------------
(* _generate_mock_schedule *)

\* The dict literal of _generate_mock_schedule (the per-scene call sheets are
\* kept as the scene numbers of the day)
MockLiteral ==
    [scheduling_strategy |->
         "Mock AI-optimized schedule - Location clustering with time-of-day optimization",
     total_shooting_days |-> 3,
     daily_schedules |->
         <<[day |-> 1, date |-> "TBD", location_focus |-> "Radio Station Complex",
            scenes |-> <<9, 1, 2>>,
            daily_summary |-> [total_scenes |-> 3, total_duration_minutes |-> 180,
                               location_changes |-> 2]]>>,
     actor_schedules |->
         [Maya |-> [total_working_days |-> 2, scenes |-> <<3, 4, 5, 7, 8, 9>>],
          MayaChen |-> [total_working_days |-> 1, scenes |-> <<2>>]],
     location_schedule |->
         [RadioStationComplex |-> [days_needed |-> <<1>>, total_scenes |-> 3]]]

\* A mock schedule kept in one shared object and handed out again
GenerateMockScheduleShared(h) ==
    IF Len(h) = 0
    THEN [ref |-> 1, heap |-> <<MockLiteral>>]
    ELSE [ref |-> 1, heap |-> h]

\* _generate_mock_schedule(): a new dict, built from the literal, on every call
GenerateMockSchedule(h) ==
    [ref |-> Len(h) + 1, heap |-> Append(h, MockLiteral)]

-----------------------------------------------------------------------------
(* create_scheduling_prompt                                                *)
(* The prompt is the sequence of the pieces the f-strings put together:    *)
(* the fixed pieces of the template and the formatted values, in the       *)
(* order they are written.  len(prompt) is the number of pieces.           *)

\* A scene record that is not a dict (scene.get raises AttributeError)
BadScene == [notdict |-> TRUE]

IsDict(v) == "notdict" \notin DOMAIN v

\* scenes_data.get('shooting_schedule', {}).get('scenes', [])
ScenesOf(scenes_data) ==
    Get(Get(scenes_data, "shooting_schedule", EmptyDict), "scenes", <<>>)

\* {scene.get('location', '') for scene in scenes}
LocationSet(scenes) == {Get(scenes[i], "location", "") : i \in 1..Len(scenes)}

\* The orders in which list(set(...)) can enumerate a set
SetOrders(S) ==
    {s \in [1..Cardinality(S) -> S] :
         \A i, j \in 1..Cardinality(S) : i # j => s[i] # s[j]}

\* ', '.join(names), as pieces
RECURSIVE Join(_)
Join(names) ==
    IF Len(names) = 0 THEN <<>>
    ELSE IF Len(names) = 1 THEN <<names[1]>>
    ELSE <<names[1], ", ">> \o Join(Tail(names))

\* [actor.get('name', '') for actor in scene.get('actors', [])]
ActorNames(scene) ==
    LET actors == Get(scene, "actors", <<>>)
    IN  [i \in 1..Len(actors) |-> Get(actors[i], "name", "")]

\* the loop of lines 30-35: the non-empty actor names, each once, in order
RECURSIVE CollectActors(_, _)
CollectActors(names, acc) ==
    IF Len(names) = 0 THEN acc
    ELSE CollectActors(Tail(names),
             IF names[1] # "" /\ \A i \in 1..Len(acc) : acc[i] # names[1]
             THEN Append(acc, names[1])
             ELSE acc)

RECURSIVE MainActors(_, _)
MainActors(scenes, acc) ==
    IF Len(scenes) = 0 THEN acc
    ELSE MainActors(Tail(scenes), CollectActors(ActorNames(scenes[1]), acc))

\* f"{scene.get('scene_number')}"
FormatSceneNumber(scene) ==
    IF "scene_number" \in DOMAIN scene THEN Str(scene["scene_number"]) ELSE "None"

\* the block written for one scene (lines 53-60)
SceneBlock(scene) ==
    LET names == ActorNames(scene)
        extras == Get(scene, "extras", <<>>)
    IN  <<"Scene", FormatSceneNumber(scene), ":", Get(scene, "scene_title", ""),
          "- Location:", Get(scene, "location", ""),
          "- Time of Day:", Get(scene, "time_of_day", ""),
          "- Duration:", Str(Get(scene, "estimated_duration_minutes", 0)), "minutes",
          "- Actors:">>
        \o (IF Len(names) > 0 THEN Join(names) ELSE <<"None">>)
        \o <<"- Extras:">>
        \o (IF Len(extras) > 0 THEN Join(extras) ELSE <<"None">>)

\* A loop that writes one block per distinct location
RECURSIVE SceneBlocksByLocation(_)
SceneBlocksByLocation(scenes) ==
    IF Len(scenes) = 0 THEN <<>>
    ELSE LET rest == Tail(scenes)
             again == \E i \in 1..Len(rest) :
                          Get(rest[i], "location", "") = Get(scenes[1], "location", "")
         IN  (IF again THEN <<>> ELSE SceneBlock(scenes[1]))
             \o SceneBlocksByLocation(rest)

\* the loop of lines 49-60: one block per scene, in list order
RECURSIVE SceneBlocks(_)
SceneBlocks(scenes) ==
    IF Len(scenes) = 0 THEN <<>>
    ELSE SceneBlock(scenes[1]) \o SceneBlocks(Tail(scenes))

PromptTrailer ==
    "## SCHEDULING CONSTRAINTS ... ## ADDITIONAL CONSIDERATIONS ... ## REQUIRED OUTPUT FORMAT ..."

\* create_scheduling_prompt(scenes_data); locs is the order in which
\* list(set(...)) of line 29 enumerates the locations
CreateSchedulingPrompt(scenes_data, locs) ==
    LET scenes == ScenesOf(scenes_data)
        project_title == Get(scenes_data, "project_title", "Film Project")
    IN  IF \E i \in 1..Len(scenes) : ~IsDict(scenes[i])
        THEN [raised |-> "AttributeError"]
        ELSE [raised |-> "none",
              prompt |->
                  <<"You are an expert film production scheduler. Create an optimal shooting schedule for",
                    project_title,
                    "## PROJECT DATA:",
                    "Total Scenes:", Str(Len(scenes)),
                    "Locations:">>
                  \o Join(locs)
                  \o <<"Main Actors:">>
                  \o Join(MainActors(scenes, <<>>))
                  \o <<"## SCENES TO SCHEDULE:">>
                  \o SceneBlocks(scenes)
                  \o <<PromptTrailer>>]

\* The orders line 29 can produce for scenes_data (none when a scene is no dict)
LocationOrders(scenes_data) ==
    LET scenes == ScenesOf(scenes_data)
    IN  IF \E i \in 1..Len(scenes) : ~IsDict(scenes[i])
        THEN {<<>>}
        ELSE SetOrders(LocationSet(scenes))

-----------------------------------------------------------------------------
(* The remote service.                                                     *)
(* What the service does with one request is a record: either requests.post*)
(* raises ([kind |-> "exception", exc]), or it returns a response          *)
(* ([kind |-> "http", status, text, json]); json is what response.json()   *)
(* does: [raised |-> "none", value |-> the body] or [raised |-> class].    *)

\* The classes of requests.exceptions.RequestException among those modelled
RequestExceptions == {"ConnectionError", "Timeout", "RequestsJSONDecodeError"}

\* Every exception class modelled; all of them derive from Exception
ExceptionClasses ==
    RequestExceptions
        \cup {"RuntimeError", "ValueError", "IndexError", "AttributeError",
              "JSONDecodeError"}

\* A post that is repeated once when the first attempt fails
RequestsPostRetrying(url, prompt, resp, t) ==
    LET req == [url |-> url, prompt_length |-> Len(prompt), at |-> t]
        failed == resp.kind = "exception" \/ resp.status # 200
    IN  [sent |-> IF failed THEN <<req, req>> ELSE <<req>>, response |-> resp]

\* A post that sleeps for one unit of time before it sends
RequestsPostThrottled(url, prompt, resp, t) ==
    [sent |-> <<[url |-> url, prompt_length |-> Len(prompt), at |-> t + 1]>>,
     response |-> resp]

\* requests.post(url, headers=headers, json=payload, timeout=30) at line 174,
\* reached at time t: one request, sent at once; resp is what the service does
RequestsPost(url, prompt, resp, t) ==
    [sent |-> <<[url |-> url, prompt_length |-> Len(prompt), at |-> t]>>,
     response |-> resp]

-----------------------------------------------------------------------------
(* call_gemini_api *)

\* A fallback that leaves the mock schedule out
WithoutMock(fields, sent, h) ==
    [raised |-> "none", result |-> fields, sent |-> sent, heap |-> h]

\* A returned dict with "optimized_schedule": self._generate_mock_schedule()
WithMock(fields, sent, h) ==
    LET m == GenerateMockSchedule(h)
    IN  [raised |-> "none",
         result |-> SetItem(fields, "optimized_schedule", [ref |-> m.ref]),
         sent |-> sent,
         heap |-> m.heap]

\* An exception e raised inside the try of lines 172-214
RaisedInTry(e, sent, h) ==
    IF e \in RequestExceptions
    THEN WithMock([error |-> "Network error calling Gemini API: " \o e], sent, h)
    ELSE [raised |-> e, sent |-> sent, heap |-> h]

\* lines 182-202: the JSON block of the text, or the mock schedule
ExtractJson(text_response, sent, h) ==
    LET json_start == Find(text_response, "{")
        json_end == RFind(text_response, "}") + 1
    IN  IF json_start # -1 /\ json_end > json_start
        THEN LET parsed == JsonLoads(Slice(text_response, json_start, json_end))
             IN  IF parsed.raised = "none"
                 THEN [raised |-> "none", result |-> parsed.value,
                       sent |-> sent, heap |-> h]
                 ELSE WithMock([error |-> "Failed to parse JSON from Gemini response",
                                raw_response |-> text_response], sent, h)
        ELSE WithMock([error |-> "No valid JSON found in Gemini response",
                       raw_response |-> text_response], sent, h)

\* lines 154-214: the request and what is made of the response; resp is what
\* the service does with the request
PostAndParse(key, url, prompt, resp, t, h) ==
    LET post == RequestsPost(url \o "?key=" \o key, prompt, resp, t)
        response == post.response
        sent == post.sent
    IN  IF response.kind = "exception"
        THEN RaisedInTry(response.exc, sent, h)
        ELSE IF response.status = 200
        THEN IF response.json.raised # "none"
             THEN RaisedInTry(response.json.raised, sent, h)
             ELSE LET result == response.json.value
                      candidates == Get(result, "candidates", <<EmptyDict>>)
                  IN  IF Len(candidates) = 0
                      THEN RaisedInTry("IndexError", sent, h)
                      ELSE LET content == Get(candidates[1], "content", EmptyDict)
                               parts == Get(content, "parts", <<EmptyDict>>)
                           IN  IF Len(parts) = 0
                               THEN RaisedInTry("IndexError", sent, h)
                               ELSE ExtractJson(Get(parts[1], "text", <<>>), sent, h)
        ELSE WithMock([error |-> "Gemini API error: " \o Str(response.status),
                       message |-> response.text], sent, h)

NoKeyResult ==
    [error |-> "Gemini API key not provided. Set GEMINI_API_KEY environment variable.",
     mock_response |-> TRUE]

\* A scheduler that stops calling the service once a mock schedule was handed out
CallGeminiApiOnceFailed(key, url, prompt, resp, t, h) ==
    IF ~Truthy(key) \/ Len(h) > 0
    THEN WithMock(NoKeyResult, <<>>, h)
    ELSE PostAndParse(key, url, prompt, resp, t, h)

\* call_gemini_api(prompt) at time t with heap h
CallGeminiApi(key, url, prompt, resp, t, h) ==
    IF ~Truthy(key)
    THEN WithMock(NoKeyResult, <<>>, h)
    ELSE PostAndParse(key, url, prompt, resp, t, h)

-----------------------------------------------------------------------------
(* generate_schedule *)

\* A handler that catches the request exceptions only
CaughtAsRequestException(e) == e \in RequestExceptions

\* except Exception as e (line 328)
CaughtAsException(e) == e \in ExceptionClasses

\* generate_schedule(scenes_data) at time t with heap h
GenerateSchedule(key, url, scenes_data, locs, resp, t, h) ==
    LET p == CreateSchedulingPrompt(scenes_data, locs)
        c == CallGeminiApi(key, url, p.prompt, resp, t, h)
        e == IF p.raised # "none" THEN p.raised ELSE c.raised
        sent == IF p.raised # "none" THEN <<>> ELSE c.sent
        hh == IF p.raised # "none" THEN h ELSE c.heap
    IN  IF e = "none"
        THEN [raised |-> "none",
              result |-> SetItem(c.result, "generation_info",
                                 [generated_at |-> t,
                                  input_scenes |-> Len(ScenesOf(scenes_data)),
                                  ai_model |-> "gemini-pro",
                                  prompt_length |-> Len(p.prompt)]),
              sent |-> sent,
              heap |-> hh]
        ELSE IF CaughtAsException(e)
        THEN LET m == GenerateMockSchedule(hh)
             IN  [raised |-> "none",
                  result |-> [error |-> "Schedule generation failed: " \o e,
                              optimized_schedule |-> [ref |-> m.ref],
                              generation_info |-> [generated_at |-> t,
                                                   error |-> e,
                                                   fallback_used |-> TRUE]],
                  sent |-> sent,
                  heap |-> m.heap]
        ELSE [raised |-> e, sent |-> sent, heap |-> hh]

\* What the caller reads in a result: the dict with the schedule it refers to
View(result, h) ==
    [k \in DOMAIN result |->
         IF k = "optimized_schedule" /\ "ref" \in DOMAIN result[k]
         THEN h[result[k]["ref"]]
         ELSE result[k]]

-----------------------------------------------------------------------------
(* Inputs *)

MkScene(number, location, duration) ==
    [scene_number |-> number,
     scene_title |-> "INT. RADIO STATION - CONTROL ROOM - NIGHT",
     location |-> location,
     time_of_day |-> "NIGHT",
     estimated_duration_minutes |-> duration,
     actors |-> <<[name |-> "Maya"]>>,
     extras |-> <<>>]

\* Scene records: complete ones (two may share a number or a location), sparse
\* ones (the defaults of .get apply) and one that is no dict
SceneRecords ==
    {MkScene(n, l, d) : n \in {1, 2}, l \in {"Radio Station", "Desert Highway"},
                        d \in {30, 60}}
        \cup {EmptyDict,
              [scene_number |-> 7],
              [scene_number |-> 3, location |-> "Radio Station",
               actors |-> <<[name |-> "Maya"], [name |-> "Maya Chen"], EmptyDict>>,
               extras |-> <<"Guards", "Drivers">>],
              BadScene}

AllScenesData ==
    {EmptyDict, [shooting_schedule |-> EmptyDict]}
        \cup {[shooting_schedule |-> [scenes |-> ss]] :
                  ss \in SeqsUpTo(SceneRecords, MaxScenes)}
        \cup {[project_title |-> "Arrakis", shooting_schedule |-> [scenes |-> ss]] :
                  ss \in SeqsUpTo(SceneRecords, MaxScenes)}

SampleScenesData ==
    [project_title |-> "Arrakis",
     shooting_schedule |->
         [scenes |-> <<MkScene(1, "Radio Station", 60),
                       MkScene(2, "Radio Station", 30)>>]]

MainScenesData ==
    {EmptyDict,
     SampleScenesData,
     [shooting_schedule |-> [scenes |-> <<MkScene(1, "Radio Station", 60), BadScene>>]]}

RaisesOnPost(e) == [kind |-> "exception", exc |-> e]

Http(status, text, json) ==
    [kind |-> "http", status |-> status, text |-> text, json |-> json]

Http200(body) == Http(200, <<>>, [raised |-> "none", value |-> body])

\* A body whose first candidate's first part holds the text
TextBody(text) == [candidates |-> <<[content |-> [parts |-> <<[text |-> text]>>]]>>]

AllTexts == SeqsUpTo(Char, MaxTextLen)

MainTexts == {<<>>, <<"{", "x", "}">>, <<"x", "{", "o", "}">>}

\* What the service may do with a request
MainResponses ==
    {RaisesOnPost("ConnectionError"), RaisesOnPost("RuntimeError"),
     Http(500, <<"x">>, [raised |-> "ValueError"]),
     Http(200, <<"x">>, [raised |-> "RequestsJSONDecodeError"]),
     Http(200, <<"x">>, [raised |-> "ValueError"]),
     Http200(EmptyDict),
     Http200([candidates |-> <<>>]),
     Http200([candidates |-> <<[content |-> [parts |-> <<>>]]>>])}
        \cup {Http200(TextBody(text)) : text \in MainTexts}

KeyArguments == {NoneKey, "", "key-from-argument"}

EnvironmentValues == {NoneKey, "", "key-from-environment"}

-----------------------------------------------------------------------------
(* The scheduler and its caller *)

\* __init__(api_key), with GEMINI_API_KEY being env (NoneKey when unset)
Construct(arg, env) ==
    [api_key |-> PyOr(arg, env),
     base_url |->
         "https://generativelanguage.googleapis.com/v1beta/models/gemini-pro:generateContent"]

InitWith(args, envs) ==
    /\ argKey \in args
    /\ envKey \in envs
    /\ api_key = Construct(argKey, envKey).api_key
    /\ base_url = Construct(argKey, envKey).base_url
    /\ now = 0
    /\ calls = 0
    /\ log = <<>>
    /\ heap = <<>>
    /\ held = EmptyDict
    /\ last = [n |-> 0]

Init == InitWith({NoneKey, "", "key-from-argument"}, {NoneKey})

\* One invocation result = scheduler.generate_schedule(scenes_data)
DoCall(scenes_data, locs, resp) ==
    LET g == GenerateSchedule(api_key, base_url, scenes_data, locs, resp, now, heap)
        returned == g.raised = "none"
    IN  /\ calls' = calls + 1
        /\ log' = log \o [i \in 1..Len(g.sent) |->
                              [url |-> g.sent[i].url, at |-> g.sent[i].at,
                               invoked |-> now, call |-> calls + 1]]
        /\ heap' = g.heap
        /\ held' = IF returned THEN g.result ELSE held
        /\ last' = [n |-> calls + 1,
                    scenes_data |-> scenes_data,
                    locs |-> locs,
                    resp |-> resp,
                    t |-> now,
                    prompt |-> CreateSchedulingPrompt(scenes_data, locs),
                    raised |-> g.raised,
                    result |-> IF returned THEN View(g.result, g.heap) ELSE EmptyDict,
                    sent |-> Len(g.sent)]
        /\ UNCHANGED <<argKey, envKey, api_key, base_url, now>>

\* generate_schedule, called with some scenes_data while the service behaves
\* in some way
GenerateScheduleCall ==
    /\ calls < MaxCalls
    /\ \E scenes_data \in MainScenesData, resp \in MainResponses :
           \E locs \in LocationOrders(scenes_data) :
               DoCall(scenes_data, locs, resp)

\* Time passes
Tick ==
    /\ now < MaxTime
    /\ now' = now + 1
    /\ UNCHANGED <<argKey, envKey, api_key, base_url, calls, log, heap, held, last>>

\* The caller changes the schedule inside the result it holds
CallerModifiesSchedule ==
    /\ "optimized_schedule" \in DOMAIN held
    /\ "ref" \in DOMAIN held["optimized_schedule"]
    /\ LET r == held["optimized_schedule"]["ref"]
       IN  /\ heap[r] = MockLiteral
           /\ heap' = [heap EXCEPT ![r] =
                           [@ EXCEPT !.total_shooting_days = 0,
                                     !.daily_schedules = <<>>]]
    /\ UNCHANGED <<argKey, envKey, api_key, base_url, now, calls, log, held, last>>

\* The caller changes the generation_info of the result it holds
CallerModifiesInfo ==
    /\ "generation_info" \in DOMAIN held
    /\ "modified_by_caller" \notin DOMAIN held["generation_info"]
    /\ held' = SetItem(held, "generation_info", [modified_by_caller |-> TRUE])
    /\ UNCHANGED <<argKey, envKey, api_key, base_url, now, calls, log, heap, last>>

Next ==
    \/ GenerateScheduleCall
    \/ Tick
    \/ CallerModifiesSchedule
    \/ CallerModifiesInfo

Spec == Init /\ [][Next]_vars

-----------------------------------------------------------------------------
(* The credential: every api_key argument and every GEMINI_API_KEY, and    *)
(* the first call of the scheduler built from them                         *)

InitKeys == InitWith(KeyArguments, EnvironmentValues)

FirstCall == calls = 0 /\ GenerateScheduleCall

NextKeys == FirstCall

SpecKeys == InitKeys /\ [][NextKeys]_vars

-----------------------------------------------------------------------------
(* The response text: every text up to MaxTextLen, answered with status    *)
(* 200 to a scheduler that holds a key                                     *)

InitText == InitWith({"key-from-argument"}, {NoneKey})

GenerateScheduleOnText ==
    /\ calls = 0
    /\ \E text \in AllTexts :
           \E locs \in LocationOrders(SampleScenesData) :
               DoCall(SampleScenesData, locs, Http200(TextBody(text)))

NextText == GenerateScheduleOnText

SpecText == InitText /\ [][NextText]_vars

-----------------------------------------------------------------------------
(* The prompt: every scene list up to MaxScenes                            *)

InitPrompt == InitWith({NoneKey, "key-from-argument"}, {NoneKey})

GenerateScheduleOnScenes ==
    /\ calls = 0
    /\ \E scenes_data \in AllScenesData :
           \E locs \in LocationOrders(scenes_data) :
               DoCall(scenes_data, locs, RaisesOnPost("Timeout"))

NextPrompt == GenerateScheduleOnScenes

SpecPrompt == InitPrompt /\ [][NextPrompt]_vars

-----------------------------------------------------------------------------
(* Vocabulary of the properties *)

Called == last.n > 0

Returned == Called /\ last.raised = "none"

\* The result holds the mock schedule under 'optimized_schedule'
HoldsMock(result) ==
    /\ "optimized_schedule" \in DOMAIN result
    /\ result["optimized_schedule"] = MockLiteral

HasKey == api_key # NoneKey /\ api_key # ""

WellFormedInput ==
    \A i \in 1..Len(ScenesOf(last.scenes_data)) :
        ScenesOf(last.scenes_data)[i] # BadScene

\* A request was made: the input is well formed and there is a key
Requested == Called /\ WellFormedInput /\ HasKey

PostRaised == last.resp.kind = "exception"

Answered == last.resp.kind = "http"

Answered200 == Answered /\ last.resp.status = 200

BodyDecoded == Answered200 /\ last.resp.json.raised = "none"

\* The service answered 200 with a body whose first candidate's first part
\* holds a text
HasText ==
    /\ BodyDecoded
    /\ "candidates" \in DOMAIN last.resp.json.value
    /\ Len(last.resp.json.value.candidates) > 0
    /\ "content" \in DOMAIN last.resp.json.value.candidates[1]
    /\ "parts" \in DOMAIN last.resp.json.value.candidates[1].content
    /\ Len(last.resp.json.value.candidates[1].content.parts) > 0
    /\ "text" \in DOMAIN last.resp.json.value.candidates[1].content.parts[1]

\* That text
TheText == last.resp.json.value.candidates[1].content.parts[1].text

\* The body holds no text at all (every .get falls back to its default)
AnsweredNoText == BodyDecoded /\ last.resp.json.value = EmptyDict

FirstOpen(text) ==
    CHOOSE i \in 1..Len(text) : text[i] = "{" /\ \A j \in 1..(i - 1) : text[j] # "{"

LastClose(text) ==
    CHOOSE i \in 1..Len(text) : text[i] = "}" /\ \A j \in (i + 1)..Len(text) : text[j] # "}"

HasOpen(text) == \E i \in 1..Len(text) : text[i] = "{"

HasCloseAfterFirstOpen(text) ==
    HasOpen(text) /\ \E j \in (FirstOpen(text) + 1)..Len(text) : text[j] = "}"

\* The span from the first '{' to the last '}' is a JSON object
SpanIsJson(text) ==
    /\ HasCloseAfterFirstOpen(text)
    /\ IsJsonObject(SubSeq(text, FirstOpen(text), LastClose(text)))

\* The members of the span, as the dict they denote
SpanPayload(text) == JsonLoads(SubSeq(text, FirstOpen(text), LastClose(text))).value

-----------------------------------------------------------------------------
FailureMode ==
    \/ ~HasKey
    \/ PostRaised
    \/ Answered /\ last.resp.status # 200
    \/ AnsweredNoText
    \/ HasText /\ ~SpanIsJson(TheText)

(* C1: in every failure mode of the remote call (no API key, an exception  *)
(* raised by the request, a status other than 200, a 200 answer with empty *)
(* text, a 200 answer whose text is not JSON) generate_schedule returns a  *)
(* result with an 'error' field and the mock schedule under                *)
(* 'optimized_schedule'.                                                   *)
C1_FailureYieldsMock ==
    (Called /\ FailureMode)
        => /\ Returned
           /\ "error" \in DOMAIN last.result
           /\ HoldsMock(last.result)

C1_Witness ==
    /\ Requested
    /\ HasText /\ TheText = <<"{", "x", "}">>
    /\ Returned
    /\ "error" \in DOMAIN last.result
    /\ HoldsMock(last.result)

EscapesCallGeminiApi ==
    /\ Requested
    /\ \/ PostRaised /\ last.resp.exc \notin {"ConnectionError", "Timeout", "RequestsJSONDecodeError"}
       \/ Answered200 /\ last.resp.json.raised \in {"ValueError"}
       \/ BodyDecoded /\ "candidates" \in DOMAIN last.resp.json.value
                      /\ Len(last.resp.json.value.candidates) = 0
       \/ BodyDecoded /\ "candidates" \in DOMAIN last.resp.json.value
                      /\ Len(last.resp.json.value.candidates) > 0
                      /\ "content" \in DOMAIN last.resp.json.value.candidates[1]
                      /\ "parts" \in DOMAIN last.resp.json.value.candidates[1].content
                      /\ Len(last.resp.json.value.candidates[1].content.parts) = 0

NoCredential == argKey \in {NoneKey, ""} /\ envKey \in {NoneKey, ""}

(* C3: with no credential (the api_key argument None or empty, and         *)
(* GEMINI_API_KEY unset or empty) call_gemini_api returns the mock         *)
(* schedule with an 'error' field and makes no request.                    *)
C3_NoCredentialNoRequest ==
    (Called /\ WellFormedInput /\ NoCredential)
        => /\ Returned
           /\ "error" \in DOMAIN last.result
           /\ "mock_response" \in DOMAIN last.result
           /\ HoldsMock(last.result)
           /\ last.sent = 0
           /\ log = <<>>

C3_Witness ==
    /\ Called /\ WellFormedInput
    /\ argKey = "" /\ envKey = ""
    /\ "error" \in DOMAIN last.result
    /\ HoldsMock(last.result)
    /\ log = <<>>

(* C4: when the service answers 200 with a text that is not JSON (no '{',  *)
(* no '}' after the first '{', or a span from the first '{' to the last    *)
(* '}' that does not parse) the result holds the mock schedule and, under  *)
(* 'raw_response', the whole text.                                         *)
C4_RawTextPreserved ==
    (Requested /\ HasText /\ ~SpanIsJson(TheText))
        => /\ Returned
           /\ HoldsMock(last.result)
           /\ "raw_response" \in DOMAIN last.result
           /\ last.result["raw_response"] = TheText

C4_Witness ==
    /\ Requested
    /\ HasText /\ TheText = <<"x", "{", "}", "}">>
    /\ Returned
    /\ HoldsMock(last.result)
    /\ last.result["raw_response"] = <<"x", "{", "}", "}">>

C6_MockIdentical ==
    (Returned /\ "error" \in DOMAIN last.result)
        => /\ HoldsMock(last.result)
           /\ "ref" \in DOMAIN held["optimized_schedule"]
           /\ held["optimized_schedule"]["ref"] = Len(heap)

C6_Witness ==
    /\ Returned
    /\ last.n = 2
    /\ Len(heap) = 2
    /\ heap[1] # MockLiteral
    /\ HoldsMock(last.result)

RequestFailed ==
    /\ Requested
    /\ \/ PostRaised
       \/ Answered /\ last.resp.status # 200
       \/ HasText /\ ~SpanIsJson(TheText)

(* C7: one invocation of generate_schedule makes at most one request, and  *)
(* after a failed request it returns the mock schedule having made exactly *)
(* that one request.                                                       *)
C7_NoRetry ==
    Called
        => /\ last.sent <= 1
           /\ Len(log) <= calls
           /\ RequestFailed => (last.sent = 1 /\ Returned /\ HoldsMock(last.result))

C7_Witness ==
    /\ Requested
    /\ Answered /\ last.resp.status = 500
    /\ last.sent = 1
    /\ Len(log) = 1
    /\ HoldsMock(last.result)

ScenePositions(p) == {i \in 1..Len(p) : p[i] = "Scene"}

\* where the k-th block starts
BlockStart(p, k) ==
    CHOOSE i \in ScenePositions(p) :
        Cardinality({j \in ScenePositions(p) : j < i}) = k - 1

TotalScenesWritten(p) == p[(CHOOSE i \in 1..Len(p) : p[i] = "Total Scenes:") + 1]

(* C8: the prompt holds one block per scene of the input list, in input    *)
(* order, with the scene's number, location and duration; the number of    *)
(* blocks is the 'Total Scenes' count of the header.                       *)
C8_PromptHoldsEveryScene ==
    (Called /\ last.prompt.raised = "none")
        => LET p == last.prompt.prompt
               scenes == ScenesOf(last.scenes_data)
           IN  /\ Cardinality(ScenePositions(p)) = Len(scenes)
               /\ TotalScenesWritten(p) = Str(Cardinality(ScenePositions(p)))
               /\ \A k \in 1..Len(scenes) :
                      LET b == BlockStart(p, k)
                          scene == scenes[k]
                      IN  /\ p[b + 1] = (IF "scene_number" \in DOMAIN scene
                                         THEN Str(scene["scene_number"]) ELSE "None")
                          /\ p[b + 4] = "- Location:"
                          /\ p[b + 5] = (IF "location" \in DOMAIN scene
                                         THEN scene["location"] ELSE "")
                          /\ p[b + 8] = "- Duration:"
                          /\ p[b + 9] = (IF "estimated_duration_minutes" \in DOMAIN scene
                                         THEN Str(scene["estimated_duration_minutes"])
                                         ELSE "0")

C8_Witness ==
    /\ Called /\ last.prompt.raised = "none"
    /\ ScenesOf(last.scenes_data)
           = <<MkScene(1, "Radio Station", 60), MkScene(1, "Radio Station", 30)>>
    /\ Cardinality(ScenePositions(last.prompt.prompt)) = 2
    /\ TotalScenesWritten(last.prompt.prompt) = "2"

(* C9: when the service answers 200 and the span from the first '{' to the *)
(* last '}' of the text is a JSON object, generate_schedule returns that   *)
(* object with 'generation_info' set (replacing the payload's own) and     *)
(* nothing else changed: no mock schedule, no 'error'.                     *)
C9_PayloadForwarded ==
    (Requested /\ HasText /\ SpanIsJson(TheText))
        => LET payload == SpanPayload(TheText)
           IN  /\ Returned
               /\ DOMAIN last.result = (DOMAIN payload) \cup {"generation_info"}
               /\ \A k \in (DOMAIN payload) \ {"generation_info"} :
                      last.result[k] = payload[k]
               /\ last.result["generation_info"]
                      = [generated_at |-> last.t,
                         input_scenes |-> Len(ScenesOf(last.scenes_data)),
                         ai_model |-> "gemini-pro",
                         prompt_length |-> Len(last.prompt.prompt)]
               /\ last.sent = 1

C9_Witness ==
    /\ Requested
    /\ HasText /\ TheText = <<"x", "{", "g", "}">>
    /\ Returned
    /\ DOMAIN last.result = {"generation_info"}
    /\ last.result["generation_info"]["ai_model"] = "gemini-pro"

WithoutTime(result) ==
    [k \in DOMAIN result |->
         IF k = "generation_info"
         THEN [f \in (DOMAIN result[k]) \ {"generated_at"} |-> result[k][f]]
         ELSE result[k]]

(* C10: a call keeps no state: the scheduler's api_key and base_url are    *)
(* those set at construction, and what a call returns (but for             *)
(* generated_at) is what the first call of a new scheduler returns for the *)
(* same scenes_data, key and response, in whichever order the locations    *)
(* are enumerated.                                                         *)
C10_NoStateBetweenCalls ==
    /\ api_key = (IF argKey \in {NoneKey, ""} THEN envKey ELSE argKey)
    /\ base_url = "https://generativelanguage.googleapis.com/v1beta/models/gemini-pro:generateContent"
    /\ Called
           => \A locs \in LocationOrders(last.scenes_data) :
                  LET fresh == GenerateSchedule(api_key, base_url, last.scenes_data,
                                                locs, last.resp, 0, <<>>)
                  IN  /\ fresh.raised = last.raised
                      /\ Returned
                             => WithoutTime(View(fresh.result, fresh.heap))
                                    = WithoutTime(last.result)
                      /\ Len(fresh.sent) = last.sent

C10_Witness ==
    /\ last.n = 2
    /\ Len(heap) = 1
    /\ Len(log) = 2
    /\ Returned
    /\ "error" \notin DOMAIN last.result
    /\ last.result["optimized_schedule"] = LiveSchedule

====
